---- MODULE Spec2Model ----
\* Model of src/revopt_loader.js: the dual-source (network first, last-known-good
\* cache second) data loader.  One process is one execution of the script in a
\* page; localStorage outlives the process, so successive page loads share it.
EXTENDS Integers, Sequences, FiniteSets, TLC

\* ------------------------------------------------------------------ bounds
\* Number of page loads (executions of the script) explored.
MaxLoads == 3
\* Number of consumers awaiting window.revoptDataPromise in one page.
MaxConsumers == 2
\* Longest row sequence enumerated in full for a direct validateSchema call.
MaxProbeRows == 3

\* ------------------------------------------------------------ source constants
MANIFEST_URL == "data/manifest.json"
SCHEMA_URL   == "data/schema_v1.json"

\* ------------------------------------------------------------------ texts
\* Message texts are sequences of string tokens; + on strings is \o.
Join(xs, sep) ==
  LET RECURSIVE J(_)
      J(i) == IF i > Len(xs) THEN <<>>
              ELSE (IF i > 1 THEN <<sep>> ELSE <<>>) \o <<xs[i]>> \o J(i + 1)
  IN J(1)

\* String.prototype.includes on token sequences.
Includes(m, sub) ==
  \E i \in 0..(Len(m) - Len(sub)) : SubSeq(m, i + 1, i + Len(sub)) = sub

\* String.prototype.toLowerCase on a hex digest (a sequence of characters).
LowerChar(c) ==
  CASE c = "A" -> "a" [] c = "B" -> "b" [] c = "C" -> "c" [] c = "D" -> "d"
    [] c = "E" -> "e" [] c = "F" -> "f" [] OTHER -> c
toLowerCase(s) == [i \in 1..Len(s) |-> LowerChar(s[i])]

\* A JSON text is either well formed (wf) and denotes val, or it is not.
\* JSON.stringify produces a well formed text of its argument.
\* The text "null" is well formed and denotes null (isNull).
JSONstringify(v) == [wf |-> TRUE, isNull |-> FALSE, val |-> v]
JSONnull(dflt) == [wf |-> TRUE, isNull |-> TRUE, val |-> dflt]
JSONbad(dflt) == [wf |-> FALSE, isNull |-> FALSE, val |-> dflt]
\* JSON.parse: throws SyntaxError on a text that is not well formed.
JSONparse(t) ==
  IF t.wf THEN [threw |-> FALSE, isNull |-> t.isNull, val |-> t.val, msg |-> <<>>]
  ELSE [threw |-> TRUE, isNull |-> FALSE, val |-> t.val,
        msg |-> <<"Unexpected token in JSON">>]

\* ------------------------------------------------------------------ data
NoManifest == [url |-> "", version |-> "", schema_version |-> "",
               hasSha |-> FALSE, sha256 |-> <<>>]
NoSchema == [required_columns |-> <<>>, numeric_columns |-> <<>>]

\* The payload texts the server may answer with.
CsvAB    == "a,b\n1,2\n3,$4"
CsvABx   == "a,b\n5,x"
CsvA     == "a\n1"
CsvEmpty == ""
Payloads == {CsvAB, CsvABx, CsvA, CsvEmpty}

\* sha256(text): lower-case hex digest, deterministic (digits abbreviated).
Digest(text) ==
  CASE text = CsvAB  -> <<"a", "1">>
    [] text = CsvABx -> <<"b", "2">>
    [] text = CsvA   -> <<"c", "3">>
    [] OTHER         -> <<"e", "3">>

\* Papa.parse(text, {header:true, dynamicTyping:false, skipEmptyLines:"greedy"}).data
PapaParse(text) ==
  CASE text = CsvAB  -> << [a |-> "1", b |-> "2"], [a |-> "3", b |-> "$4"] >>
    [] text = CsvABx -> << [a |-> "5", b |-> "x"] >>
    [] text = CsvA   -> << [a |-> "1"] >>
    [] OTHER         -> << >>

\* The manifests the server may publish.
ShaValues == { <<>>, <<"a", "1">>, <<"A", "1">>, <<"b", "2">> }
Manifests ==
  { [url |-> "d.csv", version |-> "1", schema_version |-> "",
     hasSha |-> h, sha256 |-> s] : h \in {TRUE}, s \in ShaValues }
  \cup
  { [url |-> "d.csv", version |-> "1", schema_version |-> "",
     hasSha |-> FALSE, sha256 |-> <<>>] }
ManifestTexts ==
  { JSONstringify(m) : m \in Manifests }
  \cup { JSONnull(NoManifest), JSONbad(NoManifest) }

Schemas ==
  { [required_columns |-> r, numeric_columns |-> n] :
      r \in { <<>>, <<"a", "b">> }, n \in { <<>>, <<"b">> } }
SchemaTexts ==
  { JSONstringify(s) : s \in Schemas }
  \cup { JSONnull(NoSchema), JSONbad(NoSchema) }

\* HTTP outcomes of one fetch: a status, or the fetch promise rejecting.
Statuses == {"200", "404", "failed"}

NoMeta == [source |-> "none", manifest |-> NoManifest]
NoRows == << >>

\* ------------------------------------------------------------ LKG store
\* localStorage: each key is missing (<<>>) or holds one text (<<text>>).
EmptyStore == [data |-> <<>>, meta |-> <<>>]

\* Which setItem call of a save throws (quota exceeded, storage disabled).
SetFaults == {"none", "data", "meta"}

\* saveLKG(meta, rows): two writes in order inside one try; the first throw
\* skips the rest and is swallowed.  threw says whether saveLKG itself raised.
\* Variant: the meta write is left out.
saveLKG_rowsOnly(st, meta, rows, fault) ==
  IF fault = "data" THEN [store |-> st, threw |-> FALSE]
  ELSE [store |-> [st EXCEPT !.data = <<JSONstringify(rows)>>], threw |-> FALSE]

\* Variant: no try/catch around the two writes.
saveLKG_uncaught(st, meta, rows, fault) ==
  IF fault = "data" THEN [store |-> st, threw |-> TRUE]
  ELSE IF fault = "meta"
    THEN [store |-> [st EXCEPT !.data = <<JSONstringify(rows)>>], threw |-> TRUE]
  ELSE [store |-> [data |-> <<JSONstringify(rows)>>, meta |-> <<JSONstringify(meta)>>],
        threw |-> FALSE]

saveLKG(st, meta, rows, fault) ==
  IF fault = "data" THEN [store |-> st, threw |-> FALSE]
  ELSE IF fault = "meta"
    THEN [store |-> [st EXCEPT !.data = <<JSONstringify(rows)>>], threw |-> FALSE]
  ELSE [store |-> [data |-> <<JSONstringify(rows)>>, meta |-> <<JSONstringify(meta)>>],
        threw |-> FALSE]

\* localStorage.getItem(k) || "null", then JSON.parse.
ParseItem(item, dflt) ==
  IF item = <<>> THEN JSONparse(JSONnull(dflt)) ELSE JSONparse(item[1])

\* loadLKG(): null (found = FALSE) if getItem or JSON.parse throws or either
\* value is null; otherwise the stored pair.  threw says whether loadLKG
\* itself raised.
NoLKG == [found |-> FALSE, rows |-> NoRows, meta |-> NoMeta, threw |-> FALSE]

\* Variant: line 26 tests !rows only.
loadLKG_rowsOnlyCheck(st, getThrows) ==
  LET r == ParseItem(st.data, NoRows)
      m == ParseItem(st.meta, NoMeta)
  IN IF getThrows \/ r.threw \/ m.threw \/ r.isNull
     THEN NoLKG
     ELSE [found |-> TRUE, rows |-> r.val, meta |-> m.val, threw |-> FALSE]

\* Variant: no try/catch around the reads.
loadLKG_uncaught(st, getThrows) ==
  LET r == ParseItem(st.data, NoRows)
      m == ParseItem(st.meta, NoMeta)
  IN IF getThrows \/ r.threw \/ m.threw
     THEN [found |-> FALSE, rows |-> NoRows, meta |-> NoMeta, threw |-> TRUE]
     ELSE IF r.isNull \/ m.isNull THEN NoLKG
     ELSE [found |-> TRUE, rows |-> r.val, meta |-> m.val, threw |-> FALSE]

loadLKG(st, getThrows) ==
  LET r == ParseItem(st.data, NoRows)
      m == ParseItem(st.meta, NoMeta)
  IN IF getThrows \/ r.threw \/ m.threw \/ r.isNull \/ m.isNull
     THEN NoLKG
     ELSE [found |-> TRUE, rows |-> r.val, meta |-> m.val, threw |-> FALSE]

\* ------------------------------------------------------------ validator
SampleLimit == 50
Min(a, b) == IF a < b THEN a ELSE b

\* String(v).replace(/[$,%]/g,"").replace(/,/g,"") on the cell texts in use.
Strip(v) == CASE v = "$4" -> "4" [] OTHER -> v
\* Number.isNaN(Number(vv))
NumberIsNaN(vv) == vv \notin {"", "1", "2", "3", "4", "5"}

\* Lines 40-43: the cell is not null, undefined or "" and does not coerce.
IsNonNumeric(row, col) ==
  /\ col \in DOMAIN row
  /\ row[col] # ""
  /\ NumberIsNaN(Strip(row[col]))

\* Variant: the break of line 45 is left out.
SampleLoop_noBreak(rows, col, i) ==
  LET last == Min(Len(rows), SampleLimit)
      bad == { j \in i..last : IsNonNumeric(rows[j], col) }
  IN [inspected |-> IF last < i THEN 0 ELSE last - i + 1,
      warned |-> [ j \in 1..Cardinality(bad) |-> col ]]

\* The inner for loop of lines 39-48 from row i on: how many rows it inspects
\* and the console.warn calls it makes. It runs i up to
\* Math.min(rows.length, 50) and breaks at the first cell that does not coerce.
SampleLoop(rows, col, i) ==
  LET last == Min(Len(rows), SampleLimit)
      bad == { j \in i..last : IsNonNumeric(rows[j], col) }
      stop == IF bad = {} THEN last
              ELSE CHOOSE j \in bad : \A k \in bad : j <= k
  IN [inspected |-> IF stop < i THEN 0 ELSE stop - i + 1,
      warned |-> IF bad = {} THEN <<>> ELSE <<col>>]

\* The outer for loop of line 38 from column number k on.
RECURSIVE SampleColumns(_, _, _)
SampleColumns(rows, cols, k) ==
  IF k > Len(cols) THEN [inspected |-> <<>>, warned |-> <<>>]
  ELSE LET c == SampleLoop(rows, cols[k], 1)
           r == SampleColumns(rows, cols, k + 1)
       IN [inspected |-> <<c.inspected>> \o r.inspected,
           warned |-> c.warned \o r.warned]

\* Does the sampling loop of one numeric column reach a warning?
NonNumericSample(rows, col) == SampleLoop(rows, col, 1).warned # <<>>

\* Variant: the required-columns test is left out.
validateSchema_noColumns(rows, schema) ==
  IF Len(rows) = 0
    THEN [threw |-> TRUE, msg |-> <<"empty dataset">>, warns |-> <<>>,
          inspected |-> <<>>]
  ELSE IF schema.isNull
    THEN [threw |-> TRUE, msg |-> <<"Cannot read properties of null">>,
          warns |-> <<>>, inspected |-> <<>>]
  ELSE
    LET sample == SampleColumns(rows, schema.val.numeric_columns, 1)
    IN [threw |-> FALSE, msg |-> <<>>, warns |-> sample.warned,
        inspected |-> sample.inspected]

\* validateSchema(rows, schema): schema is the parsed schema (possibly null).
\* Variant: line 32 tests !rows only, so an empty array goes on to line 33,
\* where rows[0] || {} has no keys.
validateSchema_noEmpty(rows, schema) ==
  IF schema.isNull
    THEN [threw |-> TRUE, msg |-> <<"Cannot read properties of null">>,
          warns |-> <<>>, inspected |-> <<>>]
  ELSE
    LET cols == IF Len(rows) = 0 THEN {} ELSE DOMAIN rows[1]
        IsMissing(c) == c \notin cols
        missing == SelectSeq(schema.val.required_columns, IsMissing)
        sample == SampleColumns(rows, schema.val.numeric_columns, 1)
    IN IF Len(missing) > 0
         THEN [threw |-> TRUE, msg |-> <<"missing columns: ">> \o Join(missing, ", "),
               warns |-> <<>>, inspected |-> <<>>]
         ELSE [threw |-> FALSE, msg |-> <<>>, warns |-> sample.warned,
               inspected |-> sample.inspected]

\* Variant: only the first missing column is reported.
validateSchema_firstMissing(rows, schema) ==
  IF Len(rows) = 0
    THEN [threw |-> TRUE, msg |-> <<"empty dataset">>, warns |-> <<>>,
          inspected |-> <<>>]
  ELSE IF schema.isNull
    THEN [threw |-> TRUE, msg |-> <<"Cannot read properties of null">>,
          warns |-> <<>>, inspected |-> <<>>]
  ELSE
    LET cols == DOMAIN rows[1]
        IsMissing(c) == c \notin cols
        missing == SelectSeq(schema.val.required_columns, IsMissing)
        sample == SampleColumns(rows, schema.val.numeric_columns, 1)
    IN IF Len(missing) > 0
         THEN [threw |-> TRUE, msg |-> <<"missing columns: ", missing[1]>>,
               warns |-> <<>>, inspected |-> <<>>]
         ELSE [threw |-> FALSE, msg |-> <<>>, warns |-> sample.warned,
               inspected |-> sample.inspected]

\* warns: the columns console.warn was called for, in call order; inspected:
\* how many rows the sampling loop looked at, per entry of numeric_columns.
validateSchema(rows, schema) ==
  IF Len(rows) = 0
    THEN [threw |-> TRUE, msg |-> <<"empty dataset">>, warns |-> <<>>,
          inspected |-> <<>>]
  ELSE IF schema.isNull
    THEN [threw |-> TRUE, msg |-> <<"Cannot read properties of null">>,
          warns |-> <<>>, inspected |-> <<>>]
  ELSE
    LET cols == DOMAIN rows[1]
        IsMissing(c) == c \notin cols
        missing == SelectSeq(schema.val.required_columns, IsMissing)
        sample == SampleColumns(rows, schema.val.numeric_columns, 1)
    IN IF Len(missing) > 0
         THEN [threw |-> TRUE, msg |-> <<"missing columns: ">> \o Join(missing, ", "),
               warns |-> <<>>, inspected |-> <<>>]
         ELSE [threw |-> FALSE, msg |-> <<>>, warns |-> sample.warned,
               inspected |-> sample.inspected]

\* ------------------------------------------------------------ fetcher
\* `${url}?v=${encodeURIComponent(version)}` (the tokens in use need no escaping)
FinalUrl(url, version) == IF version # "" THEN <<url, "?v=", version>> ELSE <<url>>

\* fetchText(url, version) given the transport's answer.
fetchText(url, version, status, body) ==
  IF status = "failed"
    THEN [threw |-> TRUE, msg |-> <<"Failed to fetch">>, text |-> body]
  ELSE IF status # "200"
    THEN [threw |-> TRUE,
          msg |-> <<"HTTP ", status, " for ">> \o FinalUrl(url, version),
          text |-> body]
  ELSE [threw |-> FALSE, msg |-> <<>>, text |-> body]

\* ------------------------------------------------------------ orchestrator
\* Variant: === in place of !==.
ChecksumMismatch_inverted(manifest, hash) ==
  /\ manifest.hasSha
  /\ manifest.sha256 # <<>>
  /\ toLowerCase(manifest.sha256) = toLowerCase(hash)

\* Variant: the two toLowerCase calls are left out.
ChecksumMismatch_caseSensitive(manifest, hash) ==
  /\ manifest.hasSha
  /\ manifest.sha256 # <<>>
  /\ manifest.sha256 # hash

\* The test of line 80.
ChecksumMismatch(manifest, hash) ==
  /\ manifest.hasSha
  /\ manifest.sha256 # <<>>
  /\ toLowerCase(manifest.sha256) # toLowerCase(hash)

ChecksumMessage(manifest, hash) ==
  <<"Checksum mismatch. Expected ">> \o manifest.sha256 \o <<" got ">> \o hash

\* Variant: the manifest is left out of the provenance.
NetworkMeta_noManifest(manifest) == [source |-> "network", manifest |-> NoManifest]

NetworkMeta(manifest) == [source |-> "network", manifest |-> manifest]

\* Outcomes of loadNetwork and loadData: fulfilled with {rows, meta} or
\* rejected with an error carrying msg.
Fulfilled(rows, meta) == [ok |-> TRUE, rows |-> rows, meta |-> meta, msg |-> <<>>]
Rejected(msg) == [ok |-> FALSE, rows |-> NoRows, meta |-> NoMeta, msg |-> msg]
Pending == [ok |-> FALSE, rows |-> NoRows, meta |-> NoMeta, msg |-> <<"pending">>]

NoDataPrefix == "No data available (network failed and no LKG). "
\* Variant: the cause is not appended.
NoDataError_noCause(msg) == <<NoDataPrefix>>

NoDataError(msg) == <<NoDataPrefix>> \o msg

\* Variant: no try/catch around await loadNetwork().
loadData_noCatch(net, lkg) == net

\* loadData after loadNetwork has settled with net; lkg is what loadLKG
\* returns (it is called in the catch block only).
loadData(net, lkg) ==
  IF net.ok THEN net
  ELSE IF lkg.threw THEN Rejected(<<"The operation is insecure">>)
  ELSE IF lkg.found THEN Fulfilled(lkg.rows, lkg.meta)
  ELSE Rejected(NoDataError(net.msg))

\* Variant: the meta snapshot is not set.
Expose_rowsOnly(res) ==
  IF res.ok
    THEN [data |-> <<res.rows>>, meta |-> <<>>,
          promise |-> [state |-> "fulfilled", value |-> res.rows, msg |-> <<>>]]
    ELSE [data |-> <<>>, meta |-> <<>>,
          promise |-> [state |-> "rejected", value |-> NoRows, msg |-> res.msg]]

\* What the top-level async function does once loadData has settled with res:
\* on success it sets both snapshots and fulfils the promise with rows in the
\* same turn; on failure the destructuring await throws and the promise rejects.
Expose(res) ==
  IF res.ok
    THEN [data |-> <<res.rows>>, meta |-> <<res.meta>>,
          promise |-> [state |-> "fulfilled", value |-> res.rows, msg |-> <<>>]]
    ELSE [data |-> <<>>, meta |-> <<>>,
          promise |-> [state |-> "rejected", value |-> NoRows, msg |-> res.msg]]

\* The calls loadNetwork makes, in program order (lines 74, 76, 78, 79, 80,
\* 83, 84, 85).
Pipeline ==
  <<"fetch manifest", "fetch schema", "fetch payload", "sha256", "compare",
    "parseCSV", "validateSchema", "saveLKG">>

\* Variant: a call that failed is made once more.
NextCalls_retry(i, ok) ==
  IF ~ok THEN <<Pipeline[i]>>
  ELSE IF i < Len(Pipeline) THEN <<Pipeline[i + 1]>> ELSE <<>>

\* Variant: line 85 is left out.
NextCalls_noSave(i, ok) ==
  IF ok /\ i < Len(Pipeline) - 1 THEN <<Pipeline[i + 1]>> ELSE <<>>

\* What loadNetwork does once call number i has returned (ok) or thrown: it
\* makes the next call, or the throw leaves the function (0: on entry).
NextCalls(i, ok) ==
  IF ok /\ i < Len(Pipeline) THEN <<Pipeline[i + 1]>> ELSE <<>>

\* Variant: the cache is read before the network outcome is looked at.
CatchCalls_always(n) == <<"loadLKG">> \o (IF n.ok THEN <<>> ELSE <<"console.warn">>)

\* Lines 93-95: what loadData does once loadNetwork has settled with n.
CatchCalls(n) == IF n.ok THEN <<>> ELSE <<"console.warn", "loadLKG">>

Has(seq, e) == \E i \in 1..Len(seq) : seq[i] = e

PromisePending == [state |-> "pending", value |-> NoRows, msg |-> <<>>]
NoParse == [threw |-> FALSE, rows |-> NoRows, msg |-> <<>>]
NoSchemaValue == [isNull |-> TRUE, val |-> NoSchema]

\* ------------------------------------------------------------------ state
VARIABLES
  pc,              \* where the running script is suspended
  loads,           \* page loads started so far
  store,           \* localStorage: the two LKG keys
  manifest,        \* loadNetwork: parsed manifest
  schema,          \* loadNetwork: parsed schema (possibly null)
  csvText,         \* loadNetwork: payload text
  hash,            \* loadNetwork: computed digest
  parsed,          \* the promise returned by parseCSV
  net,             \* outcome of loadNetwork
  result,          \* outcome of loadData
  promise,         \* window.revoptDataPromise
  revoptData,      \* window.revoptData (<<>> while unset)
  revoptDataMeta,  \* window.revoptDataMeta (<<>> while unset)
  warns,           \* columns console.warn was called for by validateSchema
  lkg,             \* loadData: what loadLKG returned
  pre,             \* history: the store when this page load began
  step,            \* history: the last step loadNetwork of this load reached
  setFault,        \* history: which setItem of this load's save threw
  lkgRead,         \* history: did this load read the LKG store, and how
  dataFrom,        \* history: the inputs of the load that wrote the data key
  trace,           \* history: the calls this load has made, in order
  netWarn,         \* the message console.warn was given at line 94
  consumers,       \* the consumers of window.revoptDataPromise in this page
  probe            \* a direct call of validateSchema: its inputs and outputs

locals == <<manifest, schema, csvText, hash, parsed>>
window == <<promise, revoptData, revoptDataMeta>>
history == <<pre, setFault, lkgRead, dataFrom>>
aux == <<consumers, probe>>
vars == <<pc, loads, store, locals, net, lkg, result, window, warns, step, history,
          trace, netWarn, aux>>

Consumers == 1..MaxConsumers
NoConsumers ==
  [c \in Consumers |-> [state |-> "none", early |-> FALSE, seen |-> PromisePending]]
NoProbe ==
  [phase |-> "off", rows |-> NoRows, schema |-> NoSchemaValue,
   out |-> [threw |-> FALSE, msg |-> <<>>, warns |-> <<>>, inspected |-> <<>>],
   permuted |-> NoRows,
   pout |-> [threw |-> FALSE, msg |-> <<>>, warns |-> <<>>, inspected |-> <<>>]]

NoInputs == [csvText |-> "", schema |-> NoSchemaValue, manifest |-> NoManifest]

\* The state before the script has run in any page, apart from the store, the
\* number of page loads and the validateSchema probe.
InitPage ==
  /\ pc = "idle"
  /\ manifest = NoManifest
  /\ schema = NoSchemaValue
  /\ csvText = ""
  /\ hash = <<>>
  /\ parsed = NoParse
  /\ net = Pending
  /\ result = Pending
  /\ promise = [state |-> "none", value |-> NoRows, msg |-> <<>>]
  /\ revoptData = <<>>
  /\ revoptDataMeta = <<>>
  /\ warns = <<>>
  /\ step = "none"
  /\ setFault = "unsaved"
  /\ lkgRead = "unread"
  /\ lkg = NoLKG
  /\ dataFrom = NoInputs
  /\ trace = <<>>
  /\ netWarn = <<>>
  /\ consumers = NoConsumers

Init ==
  /\ InitPage
  /\ loads = 0
  /\ store = EmptyStore
  /\ pre = EmptyStore
  /\ probe = NoProbe

\* loadNetwork rejects with an error carrying msg while at step s.
Fail(s, msg) ==
  /\ net' = Rejected(msg)
  /\ step' = s
  /\ pc' = "netDone"

\* The script runs in a fresh page: window starts empty, loadData() is called,
\* which calls loadNetwork(), which issues the manifest request.
Start ==
  /\ pc \in {"idle", "settled"}
  /\ loads < MaxLoads
  /\ loads' = loads + 1
  /\ pc' = "manifest"
  /\ manifest' = NoManifest
  /\ schema' = NoSchemaValue
  /\ csvText' = ""
  /\ hash' = <<>>
  /\ parsed' = NoParse
  /\ net' = Pending
  /\ result' = Pending
  /\ promise' = PromisePending
  /\ revoptData' = <<>>
  /\ revoptDataMeta' = <<>>
  /\ warns' = <<>>
  /\ pre' = store
  /\ step' = "manifest"
  /\ setFault' = "unsaved"
  /\ lkgRead' = "unread"
  /\ lkg' = NoLKG
  /\ trace' = NextCalls(0, TRUE)
  /\ netWarn' = <<>>
  /\ consumers' = NoConsumers
  /\ UNCHANGED <<store, dataFrom, probe>>

\* Lines 74-76: the manifest answer arrives; parse it, request the schema.
ManifestResponse ==
  /\ pc = "manifest"
  /\ \E status \in Statuses, body \in ManifestTexts :
       LET f == fetchText(MANIFEST_URL, "", status, body)
           p == JSONparse(f.text)
       IN IF f.threw THEN Fail("manifest", f.msg) /\ UNCHANGED manifest
          ELSE IF p.threw THEN Fail("manifest", p.msg) /\ UNCHANGED manifest
          ELSE IF p.isNull
            THEN Fail("manifest", <<"Cannot read properties of null">>)
                 /\ UNCHANGED manifest
          ELSE /\ manifest' = p.val
               /\ step' = "schema"
               /\ pc' = "schema"
               /\ UNCHANGED net
  /\ trace' = trace \o NextCalls(1, pc' = "schema")
  /\ UNCHANGED <<loads, store, schema, csvText, hash, parsed, lkg, result,
                 window, warns, history, netWarn, aux>>

\* Lines 76-78: the schema answer arrives; parse it, request the payload.
SchemaResponse ==
  /\ pc = "schema"
  /\ \E status \in Statuses, body \in SchemaTexts :
       LET f == fetchText(SCHEMA_URL, manifest.schema_version, status, body)
           p == JSONparse(f.text)
       IN IF f.threw THEN Fail("schema", f.msg) /\ UNCHANGED schema
          ELSE IF p.threw THEN Fail("schema", p.msg) /\ UNCHANGED schema
          ELSE /\ schema' = [isNull |-> p.isNull, val |-> p.val]
               /\ step' = "payload"
               /\ pc' = "payload"
               /\ UNCHANGED net
  /\ trace' = trace \o NextCalls(2, pc' = "payload")
  /\ UNCHANGED <<loads, store, manifest, csvText, hash, parsed, lkg, result,
                 window, warns, history, netWarn, aux>>

\* Lines 78-79: the payload answer arrives; start the digest.
PayloadResponse ==
  /\ pc = "payload"
  /\ \E status \in Statuses, body \in Payloads :
       LET f == fetchText(manifest.url, manifest.version, status, body)
       IN IF f.threw THEN Fail("payload", f.msg) /\ UNCHANGED csvText
          ELSE /\ csvText' = f.text
               /\ step' = "digest"
               /\ pc' = "digest"
               /\ UNCHANGED net
  /\ trace' = trace \o NextCalls(3, pc' = "digest")
  /\ UNCHANGED <<loads, store, manifest, schema, hash, parsed, lkg, result,
                 window, warns, history, netWarn, aux>>

\* Lines 79-83 and 59-70: the digest settles (crypto.subtle may be missing);
\* compare, then call parseCSV, whose executor runs at once.
DigestDone ==
  /\ pc = "digest"
  /\ \E subtle \in BOOLEAN, papa \in BOOLEAN :
       IF ~subtle
         THEN /\ Fail("digest", <<"Cannot read properties of undefined">>)
              /\ trace' = trace \o NextCalls(4, FALSE)
              /\ UNCHANGED <<hash, parsed>>
       ELSE IF ChecksumMismatch(manifest, Digest(csvText))
         THEN /\ Fail("checksum", ChecksumMessage(manifest, Digest(csvText)))
              /\ trace' = trace \o NextCalls(4, TRUE) \o NextCalls(5, FALSE)
              /\ hash' = Digest(csvText)
              /\ UNCHANGED parsed
       ELSE /\ hash' = Digest(csvText)
            /\ trace' = trace \o NextCalls(4, TRUE) \o NextCalls(5, TRUE)
            /\ parsed' = IF papa
                           THEN [threw |-> FALSE, rows |-> PapaParse(csvText),
                                 msg |-> <<>>]
                           ELSE [threw |-> TRUE, rows |-> NoRows,
                                 msg |-> <<"PapaParse not loaded">>]
            /\ step' = "decode"
            /\ pc' = "parse"
            /\ UNCHANGED net
  /\ UNCHANGED <<loads, store, manifest, schema, csvText, lkg, result,
                 window, warns, history, netWarn, aux>>

\* Lines 83-86: the parseCSV promise settles; validate, save, return.
ParseDone ==
  /\ pc = "parse"
  /\ \E fault \in SetFaults :
       LET v == validateSchema(parsed.rows, schema)
           meta == NetworkMeta(manifest)
           s == saveLKG(store, meta, parsed.rows, fault)
       IN IF parsed.threw
            THEN /\ Fail("decode", parsed.msg)
                 /\ trace' = trace \o NextCalls(6, FALSE)
                 /\ UNCHANGED <<store, warns, setFault, dataFrom>>
          ELSE IF v.threw
            THEN /\ Fail("validate", v.msg)
                 /\ trace' = trace \o NextCalls(6, TRUE) \o NextCalls(7, FALSE)
                 /\ UNCHANGED <<store, warns, setFault, dataFrom>>
          ELSE /\ warns' = v.warns
               /\ trace' = trace \o NextCalls(6, TRUE) \o NextCalls(7, TRUE)
                              \o NextCalls(8, ~s.threw)
               /\ store' = s.store
               /\ setFault' = fault
               /\ dataFrom' = IF fault = "data"
                                THEN dataFrom
                                ELSE [csvText |-> csvText, schema |-> schema,
                                      manifest |-> manifest]
               /\ IF s.threw
                    THEN Fail("save", <<"QuotaExceededError">>)
                    ELSE /\ net' = Fulfilled(parsed.rows, meta)
                         /\ step' = "done"
                         /\ pc' = "netDone"
  /\ UNCHANGED <<loads, locals, lkg, result, window, pre, lkgRead, netWarn, aux>>

\* Lines 89-99: loadData resumes after loadNetwork settled.
NetSettled ==
  /\ pc = "netDone"
  /\ IF ~Has(CatchCalls(net), "loadLKG")
       THEN /\ result' = loadData(net, NoLKG)
            /\ UNCHANGED <<lkg, lkgRead>>
       ELSE \E getThrows \in BOOLEAN :
              /\ lkg' = loadLKG(store, getThrows)
              /\ result' = loadData(net, lkg')
              /\ lkgRead' = IF getThrows THEN "threw" ELSE "read"
  /\ trace' = trace \o CatchCalls(net)
  /\ netWarn' = IF Has(CatchCalls(net), "console.warn") THEN net.msg ELSE <<>>
  /\ pc' = "loadDone"
  /\ UNCHANGED <<loads, store, locals, net, window, warns, step, pre,
                 setFault, dataFrom, aux>>

\* Lines 102-108: the top-level async function resumes after loadData settled.
Settle ==
  /\ pc = "loadDone"
  /\ revoptData' = Expose(result).data
  /\ revoptDataMeta' = Expose(result).meta
  /\ promise' = Expose(result).promise
  /\ pc' = "settled"
  /\ UNCHANGED <<loads, store, locals, net, lkg, result, warns, step, history,
                 trace, netWarn, aux>>

Next ==
  \/ Start
  \/ ManifestResponse
  \/ SchemaResponse
  \/ PayloadResponse
  \/ DigestDone
  \/ ParseDone
  \/ NetSettled
  \/ Settle

Spec == Init /\ [][Next]_vars

\* ------------------------------------------------ validateSchema on its own
\* Rows as the decoder yields them in header mode: a data line with fewer
\* fields than the header gives a row without the trailing keys.
RowAB  == [a |-> "1", b |-> "2"]
RowA   == [a |-> "1"]
RowABx == [a |-> "5", b |-> "x"]
ProbeRowSet == {RowAB, RowA, RowABx}

\* Every row sequence of up to MaxProbeRows rows, and sequences around the
\* sample limit that are RowAB throughout except for RowABx at row k.
ShortRows == UNION { [1..n -> ProbeRowSet] : n \in 1..MaxProbeRows }
LongRows ==
  { [i \in 1..n |-> IF i = k THEN RowABx ELSE RowAB] :
      n \in (SampleLimit - 1)..(SampleLimit + 2),
      k \in {0, 1, SampleLimit, SampleLimit + 1} }
ProbeRows == ShortRows \cup LongRows

ProbeSchemas ==
  { [isNull |-> FALSE, val |-> [required_columns |-> r, numeric_columns |-> n]] :
      r \in { <<>>, <<"a">>, <<"a", "b">>, <<"b", "c">> },
      n \in { <<>>, <<"b">>, <<"a", "b">> } }

\* The reorderings tried: all of them for short sequences, the reversal for
\* long ones.
Reorderings(n) ==
  IF n <= MaxProbeRows THEN Permutations(1..n)
  ELSE { [i \in 1..n |-> n + 1 - i] }

InitValidate ==
  /\ InitPage
  /\ loads = 0
  /\ store = EmptyStore
  /\ pre = EmptyStore
  /\ \E r \in ProbeRows, sch \in ProbeSchemas :
       probe = [NoProbe EXCEPT !.phase = "input", !.rows = r, !.schema = sch]

\* validateSchema(rows, schema) is called.
ValidateCall ==
  /\ probe.phase = "input"
  /\ probe' = [probe EXCEPT !.phase = "validated",
                            !.out = validateSchema(probe.rows, probe.schema)]
  /\ UNCHANGED <<pc, loads, store, locals, net, lkg, result, window, warns, step,
                 history, trace, netWarn, consumers>>

\* validateSchema is called again with the same rows in another order.
ValidatePermuted ==
  /\ probe.phase = "validated"
  /\ \E p \in Reorderings(Len(probe.rows)) :
       LET q == [i \in 1..Len(probe.rows) |-> probe.rows[p[i]]]
       IN probe' = [probe EXCEPT !.phase = "permuted", !.permuted = q,
                                 !.pout = validateSchema(q, probe.schema)]
  /\ UNCHANGED <<pc, loads, store, locals, net, lkg, result, window, warns, step,
                 history, trace, netWarn, consumers>>

NextValidate ==
  \/ ValidateCall
  \/ ValidatePermuted

SpecValidate == InitValidate /\ [][NextValidate]_vars

\* ------------------------------------------------------------------ types
\* ------------------------------------------------------------ found stores
\* What a page load may find under one localStorage key: nothing, a text that
\* is not JSON, the text "null", or the text an earlier save wrote.
DataItems ==
  { <<>>, <<JSONbad(NoRows)>>, <<JSONnull(NoRows)>>,
    <<JSONstringify(PapaParse(CsvAB))>> }
MetaItems ==
  { <<>>, <<JSONbad(NoMeta)>>, <<JSONnull(NoMeta)>>,
    <<JSONstringify(NetworkMeta([url |-> "d.csv", version |-> "1",
                                 schema_version |-> "", hasSha |-> FALSE,
                                 sha256 |-> <<>>]))>> }

\* The last two page loads of a browser profile whose store holds anything.
InitStore ==
  /\ InitPage
  /\ loads = MaxLoads - 2
  /\ store \in [data : DataItems, meta : MetaItems]
  /\ pre = store
  /\ probe = NoProbe

SpecStore == InitStore /\ [][Next]_vars

\* ---------------------------------------------------------------- consumers
\* The calls that awaiting window.revoptDataPromise makes: the property holds
\* the promise of the one invocation of line 102, not a function.
\* Variant: each await invokes the loader again.
AwaitCalls_reload(p) == NextCalls(0, TRUE)

AwaitCalls(p) == <<>>

\* Consumer c awaits window.revoptDataPromise (pending or already settled).
Await(c) ==
  /\ promise.state # "none"
  /\ consumers[c].state = "none"
  /\ consumers' = [consumers EXCEPT ![c].state = "waiting",
                                    ![c].early = (promise.state = "pending")]
  /\ trace' = trace \o AwaitCalls(promise)
  /\ UNCHANGED <<pc, loads, store, locals, net, lkg, result, window, warns, step,
                 history, netWarn, probe>>

\* The reaction of consumer c runs with the value or the error of the promise.
Deliver(c) ==
  /\ promise.state \in {"fulfilled", "rejected"}
  /\ consumers[c].state = "waiting"
  /\ consumers' = [consumers EXCEPT ![c].state = "delivered", ![c].seen = promise]
  /\ UNCHANGED <<pc, loads, store, locals, net, lkg, result, window, warns, step,
                 history, trace, netWarn, probe>>

\* One process: the last page load, over an empty store or a cached one.
InitConsumers ==
  /\ InitPage
  /\ loads = MaxLoads - 1
  /\ store \in { EmptyStore,
                  [data |-> <<JSONstringify(PapaParse(CsvA))>>,
                   meta |-> <<JSONstringify(NetworkMeta(NoManifest))>>] }
  /\ pre = store
  /\ probe = NoProbe

NextConsumers ==
  \/ Next
  \/ \E c \in Consumers : Await(c)
  \/ \E c \in Consumers : Deliver(c)

SpecConsumers == InitConsumers /\ [][NextConsumers]_vars

\* ----------------------------------------------------------------- progress
\* One page load in which every fetch, the digest and the decoder complete or
\* fail, and the event loop runs every continuation that is ready.
InitFair ==
  /\ InitPage
  /\ loads = MaxLoads - 1
  /\ store \in { EmptyStore,
                  [data |-> <<JSONstringify(PapaParse(CsvA))>>,
                   meta |-> <<JSONstringify(NetworkMeta(NoManifest))>>] }
  /\ pre = store
  /\ probe = NoProbe

FairSpec ==
  /\ InitFair
  /\ [][Next]_vars
  /\ WF_vars(ManifestResponse)
  /\ WF_vars(SchemaResponse)
  /\ WF_vars(PayloadResponse)
  /\ WF_vars(DigestDone)
  /\ WF_vars(ParseDone)
  /\ WF_vars(NetSettled)
  /\ WF_vars(Settle)

TypeOK ==
  /\ pc \in {"idle", "manifest", "schema", "payload", "digest", "parse",
              "netDone", "loadDone", "settled"}
  /\ loads \in 0..MaxLoads
  /\ promise.state \in {"none", "pending", "fulfilled", "rejected"}
  /\ Len(revoptData) <= 1
  /\ Len(revoptDataMeta) <= 1

\* ------------------------------------------------------------------ claims
Settled == pc \in {"loadDone", "settled"}

\* Both keys hold well formed, non-null texts.
Readable(st) ==
  /\ st.data # <<>> /\ st.data[1].wf /\ ~st.data[1].isNull
  /\ st.meta # <<>> /\ st.meta[1].wf /\ ~st.meta[1].isNull

\* The manifest asks for no digest, or for this one up to letter case.
DigestAccepted(m, h) ==
  \/ ~m.hasSha
  \/ m.sha256 = <<>>
  \/ toLowerCase(m.sha256) = toLowerCase(h)

\* rows is not empty and its first row has every required column of sch.
RowsSatisfy(rows, sch) ==
  /\ Len(rows) > 0
  /\ ~sch.isNull
  /\ \A i \in 1..Len(sch.val.required_columns) :
        sch.val.required_columns[i] \in DOMAIN rows[1]

\* C1: when the network path fails and the store holds a readable entry,
\* loadData resolves with exactly the cached rows and meta and the returned
\* meta.source is "cache".
C1_CacheFallback ==
  (Settled /\ ~net.ok /\ lkgRead = "read" /\ Readable(store)) =>
    /\ result.ok
    /\ result.rows = store.data[1].val
    /\ result.meta = store.meta[1].val
    /\ result.meta.source = "cache"

\* C2: when the network path fails and loadLKG reports no entry, loadData
\* rejects with an error whose message contains the network error's message.
C2_NoDataCarriesCause ==
  (Settled /\ ~net.ok /\ ~lkg.found) =>
    /\ ~result.ok
    /\ Includes(result.msg, net.msg)
    /\ (pc = "settled" =>
          promise.state = "rejected" /\ Includes(promise.msg, net.msg))

C2_Witness ==
  /\ pc = "settled"
  /\ step = "payload"
  /\ Len(net.msg) > 3
  /\ promise.state = "rejected"

\* C3: when all three fetches succeed, the digest is accepted and the decoded
\* rows pass validation, loadData resolves with the decoder's rows and
\* meta = {source: "network", manifest}, whatever the cache held.
C3_NetworkLoad ==
  (Settled /\ hash # <<>> /\ DigestAccepted(manifest, hash) /\ ~parsed.threw
     /\ RowsSatisfy(PapaParse(csvText), schema)) =>
    /\ result.ok
    /\ result.rows = PapaParse(csvText)
    /\ result.meta.source = "network"
    /\ result.meta.manifest = manifest

C3_Witness ==
  /\ pc = "settled"
  /\ step = "done"
  /\ Readable(pre)
  /\ pre.data[1].val # result.rows
  /\ promise.state = "fulfilled"

\* C4 as stated: whenever manifest.sha256 is present and differs from the
\* computed digest, the network path fails and both keys are left as they were.
C4_AsStated ==
  (hash # <<>> /\ manifest.hasSha /\ manifest.sha256 # <<>>
     /\ manifest.sha256 # hash) =>
    /\ pc # "parse"
    /\ ~net.ok
    /\ store = pre

\* C4 amended: whenever manifest.sha256 is present and differs from the
\* computed digest after both are lower-cased, the network path fails at the
\* checksum and both keys are left as they were.
C4_Amended ==
  (hash # <<>> /\ manifest.hasSha /\ manifest.sha256 # <<>>
     /\ toLowerCase(manifest.sha256) # toLowerCase(hash)) =>
    /\ pc # "parse"
    /\ ~net.ok
    /\ step = "checksum"
    /\ store = pre

C4_Witness ==
  /\ pc = "settled"
  /\ step = "checksum"
  /\ Readable(store)
  /\ manifest.sha256 # hash

C6_CacheValidated ==
  store.data # <<>> =>
    /\ store.data[1].wf
    /\ ~store.data[1].isNull
    /\ store.data[1].val = PapaParse(dataFrom.csvText)
    /\ RowsSatisfy(store.data[1].val, dataFrom.schema)
    /\ DigestAccepted(dataFrom.manifest, Digest(dataFrom.csvText))

C6_Witness ==
  /\ pc = "settled"
  /\ step = "validate"
  /\ Len(parsed.rows) > 0
  /\ store.data # <<>>
  /\ store.data[1].val # parsed.rows

\* C7: the stored rows and the stored meta were written by the same load:
\* the stored manifest is the manifest of the load that wrote the rows.
C7_AtomicPair ==
  (store.data # <<>> /\ store.meta # <<>>) =>
    store.meta[1].val.manifest = dataFrom.manifest

\* C8: the only failure of loadData and of window.revoptDataPromise is the
\* "No data available" error, raised when the network path failed and the
\* store gave no entry.
C8_OnlyNoData ==
  /\ (Settled /\ ~result.ok) =>
        /\ result.msg[1] = NoDataPrefix
        /\ ~net.ok
        /\ ~lkg.found
  /\ promise.state = "rejected" => promise.msg[1] = NoDataPrefix

C8_Witness ==
  /\ pc = "settled"
  /\ promise.state = "rejected"
  /\ lkgRead = "threw"
  /\ step = "checksum"
  /\ Readable(store)

\* C9: a setItem that throws during the save does not change the outcome:
\* the load resolves with the network rows and meta.source = "network".
C9_SaveFaultHarmless ==
  setFault \in {"data", "meta"} =>
    /\ net.ok
    /\ net.rows = PapaParse(csvText)
    /\ net.meta.source = "network"
    /\ (Settled => result = net)
    /\ (pc = "settled" => promise.state = "fulfilled" /\ promise.value = net.rows)

C9_Witness ==
  /\ pc = "settled"
  /\ setFault = "data"
  /\ store = EmptyStore
  /\ promise.state = "fulfilled"

\* C10: while window.revoptDataPromise is pending or rejected both snapshots
\* are unset; once it is fulfilled they are the rows and meta of the load
\* result and the promise's value is the rows snapshot.
C10_Snapshots ==
  /\ promise.state \in {"none", "pending", "rejected"} =>
        revoptData = <<>> /\ revoptDataMeta = <<>>
  /\ promise.state = "fulfilled" =>
        /\ result.ok
        /\ revoptData = <<result.rows>>
        /\ revoptDataMeta = <<result.meta>>
        /\ promise.value = revoptData[1]

C10_Witness ==
  /\ promise.state = "fulfilled"
  /\ Len(revoptData) = 1
  /\ Len(revoptData[1]) = 2
  /\ revoptDataMeta[1].source = "network"

\* The required columns of sch that the first row of rows lacks.
MissingIn(rows, sch) ==
  { c \in { sch.val.required_columns[i] : i \in 1..Len(sch.val.required_columns) } :
      c \notin DOMAIN rows[1] }

\* The first two parts of C11: failure exactly on a missing column, and the
\* message lists the missing names and no others.
FailsOnMissing(rows, sch, out) ==
  /\ out.threw <=> MissingIn(rows, sch) # {}
  /\ out.threw =>
       /\ out.msg[1] = "missing columns: "
       /\ \A c \in {"a", "b", "c"} : Has(out.msg, c) <=> c \in MissingIn(rows, sch)

\* C11 as stated: validateSchema on a non-empty row sequence fails exactly
\* when a required column is not a key of the first row, the error lists every
\* missing name, and the outcome is the same for every permutation of the rows.
C11_AsStated ==
  probe.phase = "permuted" =>
    /\ FailsOnMissing(probe.rows, probe.schema, probe.out)
    /\ probe.pout.threw = probe.out.threw
    /\ probe.pout.msg = probe.out.msg

\* C11 amended: ... and the outcome is the same for every permutation of the
\* rows whose first row has the same keys as the original first row (so for
\* every permutation when all rows have the same keys).
C11_Amended ==
  /\ probe.phase \in {"validated", "permuted"} =>
       FailsOnMissing(probe.rows, probe.schema, probe.out)
  /\ (probe.phase = "permuted"
        /\ DOMAIN probe.permuted[1] = DOMAIN probe.rows[1]) =>
       /\ probe.pout.threw = probe.out.threw
       /\ probe.pout.msg = probe.out.msg

C11_Witness ==
  /\ probe.phase = "permuted"
  /\ probe.permuted # probe.rows
  /\ DOMAIN probe.permuted[1] = DOMAIN probe.rows[1]
  /\ probe.out.threw
  /\ Len(probe.out.msg) = 4

\* How often c occurs in seq.
Count(seq, c) == Cardinality({ i \in 1..Len(seq) : seq[i] = c })

\* C12: when the first row has every required column validateSchema returns
\* normally whatever the numeric columns hold; for each numeric column it
\* inspects rows 1..n with n <= 50, stops at the first value that does not
\* coerce, and warns at most once.
C12_SampleAdvisory ==
  (probe.phase \in {"validated", "permuted"}
     /\ MissingIn(probe.rows, probe.schema) = {}) =>
    LET num == probe.schema.val.numeric_columns
        out == probe.out
    IN /\ ~out.threw
       /\ Len(out.inspected) = Len(num)
       /\ \A k \in 1..Len(num) :
            LET n == out.inspected[k]
            IN /\ n >= 1
               /\ n <= 50
               /\ n <= Len(probe.rows)
               /\ \A j \in 1..(n - 1) : ~IsNonNumeric(probe.rows[j], num[k])
               /\ Count(out.warns, num[k]) =
                    (IF IsNonNumeric(probe.rows[n], num[k]) THEN 1 ELSE 0)
               /\ (n < 50 /\ n < Len(probe.rows)) =>
                    IsNonNumeric(probe.rows[n], num[k])

C12_Witness ==
  /\ probe.phase = "validated"
  /\ Len(probe.rows) > 50
  /\ IsNonNumeric(probe.rows[51], "b")
  /\ Has(probe.schema.val.numeric_columns, "b")
  /\ ~probe.out.threw
  /\ probe.out.warns = <<>>
  /\ probe.out.inspected[1] = 50

\* The calls of loadNetwork in trace (those of loadData's catch block left out).
NetworkCalls ==
  LET IsNet(e) == e \notin {"console.warn", "loadLKG"}
  IN SelectSeq(trace, IsNet)

\* The number of the call at which loadNetwork failed, by the step reached.
FailedCall ==
  CASE step = "manifest" -> 1 [] step = "schema" -> 2 [] step = "payload" -> 3
    [] step = "digest" -> 4 [] step = "checksum" -> 5 [] step = "decode" -> 6
    [] step = "validate" -> 7 [] OTHER -> 8

NetworkOver == pc \in {"netDone", "loadDone", "settled"}

\* C13: within one load the network steps occur in the order manifest fetch,
\* schema fetch, payload fetch, digest, compare, decode, validate, save; each
\* at most once and each only after the one before has succeeded; after the
\* first failing step nothing more is requested and the cache is not written.
C13_FixedOrder ==
  LET order == <<"fetch manifest", "fetch schema", "fetch payload", "sha256",
                 "compare", "parseCSV", "validateSchema", "saveLKG">>
      calls == NetworkCalls
  IN /\ Len(calls) <= Len(order)
     /\ calls = SubSeq(order, 1, Len(calls))
     /\ pc # "idle" => Len(calls) >= 1
     /\ Has(calls, "fetch schema") => step # "manifest"
     /\ Has(calls, "fetch payload") => step \notin {"manifest", "schema"}
     /\ (NetworkOver /\ ~net.ok) =>
          /\ Len(calls) = FailedCall
          /\ ~Has(calls, "saveLKG")
          /\ store = pre
     /\ (NetworkOver /\ net.ok) => Len(calls) = Len(order)

C13_Witness ==
  /\ pc = "settled"
  /\ step = "payload"
  /\ Readable(store)
  /\ NetworkCalls = <<"fetch manifest", "fetch schema", "fetch payload">>

\* The place of the first e in seq (0: none).
IndexOf(seq, e) ==
  IF Has(seq, e) THEN CHOOSE i \in 1..Len(seq) :
                        seq[i] = e /\ \A j \in 1..(i - 1) : seq[j] # e
  ELSE 0

\* C14: every load starts with the network path; the LKG store is read only
\* after loadNetwork has failed and the warning with its message has been
\* logged; a load whose network path succeeds never reads the store.
C14_NetworkFirst ==
  /\ pc # "idle" => trace[1] = "fetch manifest"
  /\ Has(trace, "loadLKG") <=> lkgRead # "unread"
  /\ lkgRead # "unread" =>
       /\ Settled
       /\ ~net.ok
       /\ netWarn = net.msg
       /\ IndexOf(trace, "console.warn") = Len(NetworkCalls) + 1
       /\ IndexOf(trace, "loadLKG") = Len(NetworkCalls) + 2
  /\ (NetworkOver /\ net.ok) =>
       /\ lkgRead = "unread"
       /\ lkg = NoLKG
       /\ netWarn = <<>>

C14_Witness ==
  /\ pc = "settled"
  /\ lkgRead = "read"
  /\ lkg.found
  /\ step = "validate"
  /\ netWarn = net.msg
  /\ Len(netWarn) > 1

\* C15: the checksum step fails exactly when manifest.sha256 is present and
\* non-empty and differs from the digest after both are lower-cased; an absent
\* or empty sha256 accepts any digest, and so does one differing only in case.
C15_ChecksumRule ==
  hash # <<>> =>
    /\ step = "checksum" <=>
         (manifest.hasSha /\ manifest.sha256 # <<>>
            /\ toLowerCase(manifest.sha256) # toLowerCase(hash))
    /\ step = "checksum" =>
         /\ NetworkOver
         /\ net = Rejected(<<"Checksum mismatch. Expected ">> \o manifest.sha256
                              \o <<" got ">> \o hash)

C15_Witness ==
  /\ pc = "settled"
  /\ step = "done"
  /\ manifest.sha256 # <<>>
  /\ manifest.sha256 # hash
  /\ toLowerCase(manifest.sha256) = hash

\* C16: loadLKG never raises; it returns an entry only when both keys hold
\* well formed, non-null texts, and the entry is what they denote; otherwise it
\* returns null, and loadData then rejects with the no-data error. A store
\* holding the rows key alone (a save that failed on the meta key of an empty
\* store) is such a case.
C16_LoadLKG ==
  /\ lkgRead # "unread" =>
       /\ ~lkg.threw
       /\ lkg.found =>
            /\ lkgRead = "read"
            /\ Readable(store)
            /\ lkg.rows = store.data[1].val
            /\ lkg.meta = store.meta[1].val
            /\ result = Fulfilled(lkg.rows, lkg.meta)
       /\ ~lkg.found =>
            /\ lkg = NoLKG
            /\ result = Rejected(NoDataError(net.msg))
  /\ (Settled /\ ~net.ok /\ store.data # <<>> /\ store.meta = <<>>) =>
       /\ ~lkg.found
       /\ result = Rejected(NoDataError(net.msg))
  /\ (pc = "settled" /\ ~net.ok /\ ~lkg.found) =>
       /\ promise.state = "rejected"
       /\ promise.msg = NoDataError(net.msg)

C16_Witness ==
  /\ pc = "settled"
  /\ dataFrom # NoInputs
  /\ store = [data |-> <<JSONstringify(PapaParse(dataFrom.csvText))>>, meta |-> <<>>]
  /\ ~net.ok
  /\ lkgRead = "read"
  /\ promise.state = "rejected"
  /\ promise.msg[1] = NoDataPrefix

\* The last call the load has made.
LastCall == IF trace = <<>> THEN "none" ELSE trace[Len(trace)]

\* C17 as stated: decoding, validation and the cache save run without a yield
\* between them, so once the payload is decoded no state is observable in
\* which validation has not run yet.
C17_AsStated ==
  (Has(trace, "parseCSV") /\ ~parsed.threw /\ Len(parsed.rows) > 0) =>
    Has(trace, "validateSchema")

\* C17 amended: a load is suspended at a fetch, at the digest, at the await of
\* the promise parseCSV returns, or at the await of loadNetwork() or
\* loadData(); the compare and the parseCSV call share a turn, validateSchema
\* and saveLKG share the next one, and console.warn and loadLKG share one, so
\* no state lies between validated and saved or between warned and read.
C17_Amended ==
  /\ pc = "manifest" => LastCall = "fetch manifest"
  /\ pc = "schema" => LastCall = "fetch schema"
  /\ pc = "payload" => LastCall = "fetch payload"
  /\ pc = "digest" => LastCall = "sha256"
  /\ pc = "parse" =>
       /\ LastCall = "parseCSV"
       /\ store = pre
  /\ pc = "netDone" =>
       /\ net # Pending
       /\ result = Pending
       /\ net.ok <=> LastCall = "saveLKG"
  /\ pc \in {"loadDone", "settled"} =>
       /\ result # Pending
       /\ net.ok <=> LastCall = "saveLKG"
       /\ ~net.ok <=> LastCall = "loadLKG"
  /\ Has(trace, "compare") => (Has(trace, "parseCSV") \/ step = "checksum")
  /\ Has(trace, "validateSchema") => (Has(trace, "saveLKG") \/ step = "validate")
  /\ Has(trace, "console.warn") => Has(trace, "loadLKG")

C17_Witness ==
  /\ pc = "parse"
  /\ ~parsed.threw
  /\ Len(parsed.rows) > 0
  /\ RowsSatisfy(parsed.rows, schema)
  /\ Readable(store)
  /\ store.data[1] # JSONstringify(parsed.rows)

\* C18: in one process, whatever the number of consumers awaiting
\* window.revoptDataPromise and whether they do so before or after it settles,
\* the manifest, the schema and the payload are each fetched at most once, the
\* cache is written at most once, and every consumer whose reaction has run
\* saw the outcome of the one load: the same rows, or the same error.
C18_OnceForAll ==
  /\ loads = MaxLoads => Count(trace, "fetch manifest") = 1
  /\ Count(trace, "fetch schema") <= 1
  /\ Count(trace, "fetch payload") <= 1
  /\ Count(trace, "saveLKG") <= 1
  /\ \A c \in Consumers :
       consumers[c].state = "delivered" =>
         /\ pc = "settled"
         /\ consumers[c].seen = promise
         /\ IF result.ok
              THEN /\ consumers[c].seen.state = "fulfilled"
                   /\ consumers[c].seen.value = result.rows
              ELSE /\ consumers[c].seen.state = "rejected"
                   /\ consumers[c].seen.msg = result.msg
  /\ \A c, e \in Consumers :
       (consumers[c].state = "delivered" /\ consumers[e].state = "delivered") =>
         consumers[c].seen = consumers[e].seen

C18_Witness ==
  \E c, e \in Consumers :
    /\ consumers[c].state = "delivered"
    /\ consumers[e].state = "delivered"
    /\ consumers[c].early
    /\ ~consumers[e].early
    /\ consumers[c].seen.state = "fulfilled"
    /\ Len(consumers[c].seen.value) > 0
    /\ Has(trace, "saveLKG")

\* The two terminal outcomes: fulfilled with the rows loadData returned, or
\* rejected with the no-data error.
TerminalOutcome ==
  /\ pc = "settled"
  /\ \/ /\ promise.state = "fulfilled"
        /\ result.ok
        /\ promise.value = result.rows
     \/ /\ promise.state = "rejected"
        /\ ~result.ok
        /\ promise.msg = NoDataError(net.msg)

\* C19: if every fetch, the digest and the decoder eventually complete or
\* fail, a load that has begun eventually settles, fulfilled with rows or
\* rejected with the no-data error; once settled its promise never changes.
C19_Settles ==
  /\ (promise.state = "pending") ~> TerminalOutcome
  /\ [][promise.state \in {"fulfilled", "rejected"} => promise' = promise]_vars
  /\ [](promise.state \in {"fulfilled", "rejected"} => TerminalOutcome)

C19_Witness ==
  /\ TerminalOutcome
  /\ promise.state = "rejected"
  /\ step = "decode"
  /\ loads = MaxLoads

\* C20: a step that changes either cache key is the last step of a network
\* path whose digest was accepted, whose decoder returned rows and whose rows
\* passed validation, and that path succeeds; so a load whose network path
\* fails at any step ends with both keys as it found them, and the fallback
\* (console.warn, loadLKG) writes nothing.
C20_WriteOnlyAfterValidation ==
  [][ /\ store' # store =>
           /\ pc = "parse"
           /\ DigestAccepted(manifest, hash)
           /\ ~parsed.threw
           /\ RowsSatisfy(parsed.rows, schema)
           /\ net'.ok
           /\ trace'[Len(trace')] = "saveLKG"
      /\ (pc' \in {"netDone", "loadDone", "settled"} /\ ~net'.ok) => store' = pre'
      /\ pc \in {"netDone", "loadDone"} => store' = store
    ]_vars

C20_Witness ==
  /\ pc = "settled"
  /\ step = "validate"
  /\ parsed.rows = <<>>
  /\ lkg.found
  /\ Readable(store)
  /\ store = pre
====
